---- MODULE Spec2Model ----
(***************************************************************************)
(* The PyTorch tutorial notebooks of DeepLearning/3_PyTorch, as a state    *)
(* machine over the kernel's names.                                        *)
(*                                                                         *)
(*   Part 1 - Tensors in PyTorch      section "tensors"                    *)
(*   Part 3 - Training Neural Networks                                     *)
(*       cells 2..7   (autograd on x)   section "autograd"                 *)
(*       cells 9..16  (the network)     section "training"                 *)
(*                                                                         *)
(* A run executes the code cells of one section once each, top to bottom.  *)
(* Cells 9..16 of Part 3 read none of x, y, z, so the two halves of Part 3 *)
(* are explored as separate runs.  The tensor library is not part of the   *)
(* repository: its operations are modelled as the notebooks' own markdown, *)
(* comments and recorded outputs describe them.                            *)
(*                                                                         *)
(* Numbers.  Weights are integers in units of 1/1000, so that the learning *)
(* rates 0.01 and 0.003 are the integers 10 and 3 and gradients are        *)
(* integers.  Elements of the Part 1 tensors are integers in units of      *)
(* 1/Den.  The autograd section computes with exact fractions <<n, d>>.    *)
(***************************************************************************)
EXTENDS Integers, Sequences, FiniteSets, TLC

VARIABLES
    sec,            \* which section this run executes
    pc,             \* the statement about to be executed
    \* ---- Part 3, training ----
    weights,        \* model parameters: [Params -> Int], None before cell 10
    grad,           \* .grad of the parameters: None, or [Params -> Int]
    batchGrad,      \* the gradient autograd computed in the latest backward pass
    wPrev,          \* the parameters as they were when optimizer.step was entered
    lr,             \* learning rate of the optimizer bound to the name `optimizer`
    e,              \* loop variable of `for e in range(epochs)`, -1 while unbound
    steps,          \* the notebook's counter `steps`
    running_loss,   \* the set of iterations whose loss.item() is summed in running_loss
    left,           \* minibatches the current iterator of trainloader has not yielded
    cur,            \* the minibatch bound to images, labels (0: none)
    flat,           \* images has been resized to (n, 784)
    calls,          \* library calls made so far in the current iteration / cell 12
    nsteps,         \* optimizer.step calls completed by the training loop
    seen,           \* [Batches -> Nat]: optimizer steps taken on each minibatch in the loop
    printed,        \* loss lines printed by the training loop
    raisedAt,       \* the statement that raised, "" if none
    grad_enabled,   \* autograd's global grad mode
    prev_mode,      \* grad mode saved by the no_grad context manager
    logits_rg,      \* logits.requires_grad (cell 16)
    \* ---- Part 3, autograd ----
    x, y, z,        \* x: 2x2 tensor flattened row-major; y = x**2; z = y.mean()
    xgrad,          \* x.grad: None or a sequence of fractions
    shown,          \* what the cell's print calls wrote
    \* ---- Part 1, tensors ----
    heap,           \* memory: a sequence of storages, each a sequence of numbers
    tx, ty, tz,     \* the tensors x, y, z: [st |-> storage, shape |-> dimensions]
    na, tb,         \* the Numpy array a and the tensor b
    out,            \* the value the latest cell displayed (Out[n])
    snap,           \* elements and shape of the operand as they were before the latest call
    slice,          \* the elements of the latest indexing expression, as displayed
    \* ---- the kernel's namespace ----
    names,          \* the names bound so far
    undefined       \* names a statement read before any cell had bound them (NameError)

trainVars == <<weights, grad, batchGrad, wPrev, lr, e, steps, running_loss, left, cur,
               flat, calls, nsteps, seen, printed, raisedAt, grad_enabled, prev_mode,
               logits_rg>>
autoVars == <<x, y, z, xgrad, shown>>
tensVars == <<heap, tx, ty, tz, na, tb, out, snap, slice>>
nameVars == <<names, undefined>>
vars == <<sec, pc, trainVars, autoVars, tensVars, nameVars>>

\* Python's None, and an unbound tensor name
None == <<>>

-----------------------------------------------------------------------------
\* Bounds of the model

\* minibatches the trainloader yields per epoch (938 for MNIST with batch_size 64)
NBatches == 2
\* a component of a minibatch gradient is 0 or MaxGrad
MaxGrad == 1
\* initial parameter values are 0 or MaxW0
MaxW0 == 1
\* the notebook's print_every is 40; scaled so that a run of
\* epochs * NBatches iterations reaches the print
print_every == 3

\* elements of the random tensor x of the autograd cells are drawn from -MaxX..MaxX
MaxX == 1
\* elements of the Part 1 tensors are multiples of 1/Den; torch.rand and
\* np.random.rand draw from [0, 1), the numerators 0..Den-1
Den == 4
\* seeds of the random number generator
NSeeds == 3

\* Program constants
epochs == 3
\* optim.SGD(model.parameters(), lr=0.01), in thousandths
LrSingle == 10
\* optim.SGD(model.parameters(), lr=0.003), in thousandths
LrLoop == 3

Batches == 1..NBatches
Grads == {0, MaxGrad}
\* the parameter tensors of the first layer, model.fc1
Params == {"weight", "bias"}

-----------------------------------------------------------------------------
\* The library operations the training cells call
\* zero_grad that leaves the stored gradients as they are
ZeroGradKeeps(g) == g

\* optimizer.zero_grad(): "Clear the gradients, do this because gradients are
\* accumulated".  A parameter that never had a gradient keeps None.
ZeroGrad(g) == IF g = None THEN None ELSE [p \in DOMAIN g |-> 0]

\* loss.backward(): the gradient bg of this loss is accumulated into .grad
Accumulate(g, bg) == IF g = None THEN bg ELSE [p \in DOMAIN bg |-> g[p] + bg[p]]
\* a step that moves along the gradient instead of against it
SGDStepAscent(w, g, alpha) ==
    IF g = None THEN w ELSE [p \in DOMAIN w |-> w[p] + alpha * g[p]]

\* optimizer.step() of SGD: w' = w - alpha * dl/dw, for every parameter that
\* has a gradient
SGDStep(w, g, alpha) == IF g = None THEN w ELSE [p \in DOMAIN w |-> w[p] - alpha * g[p]]
\* an iterator that drops the last minibatch (drop_last)
IterBatchesDropLast == Batches \ {NBatches}

\* iter(trainloader): a fresh iterator that yields every minibatch once
\* (shuffle=True: in any order)
IterBatches == Batches
\* requires_grad that ignores the grad mode
RequiresGradAnyMode(enabled, inputs) == TRUE \in inputs

\* requires_grad of the result of an operation whose inputs have the given
\* requires_grad flags, under grad mode `enabled`
ResultRequiresGrad(enabled, inputs) == enabled /\ (TRUE \in inputs)

-----------------------------------------------------------------------------
\* Exact fractions <<n, d>> with d > 0, in lowest terms

Abs(n) == IF n < 0 THEN -n ELSE n

RECURSIVE GCD(_, _)
GCD(a, b) == IF b = 0 THEN a ELSE GCD(b, a % b)

Rat(n, d) ==
    LET g == GCD(Abs(n), Abs(d))
        s == IF d < 0 THEN -1 ELSE 1
    IN  <<(s * n) \div g, (s * d) \div g>>

RatMul(a, b) == Rat(a[1] * b[1], a[2] * b[2])

\* The autograd cells of Part 3

\* x = torch.randn(2,2, requires_grad=True)
XRows == 2
XCols == 2

RECURSIVE SumSeq(_)
SumSeq(t) == IF t = <<>> THEN 0 ELSE Head(t) + SumSeq(Tail(t))

\* y = x**2, element by element
Square(t) == [i \in DOMAIN t |-> t[i] * t[i]]

\* z = y.mean(): (1/n) * sum of the n elements
Mean(t) == Rat(SumSeq(t), Len(t))

\* dz/dy_i of z = y.mean() over n elements
MeanBackward(n) == Rat(1, n)
\* a pow derivative that loses the factor 2
PowBackwardNoFactor(xi) == Rat(xi, 1)

\* dy_i/dx_i of y = x**2 (PowBackward0)
PowBackward(xi) == Rat(2 * xi, 1)

\* z.backward(): the chain rule through mean and pow, dz/dx_i for every element
BackwardZ(t) == [i \in DOMAIN t |-> RatMul(MeanBackward(Len(t)), PowBackward(t[i]))]

\* x/2, element by element
Half(t) == [i \in DOMAIN t |-> Rat(t[i], 2)]

-----------------------------------------------------------------------------
\* Tensors of Part 1: a tensor is a shape over a storage in memory

RECURSIVE Numel(_)
Numel(shape) == IF shape = <<>> THEN 1 ELSE Head(shape) * Numel(Tail(shape))

\* the elements of tensor t, flattened in row-major order
Elems(h, t) == h[t.st]

\* torch.rand(shape) / np.random.rand(shape): n numbers of [0, 1) from the generator
RandElems(seed, n) == [i \in 1..n |-> (seed * i * i + seed + i) % Den]

\* torch.ones(shape)
OnesElems(n) == [i \in 1..n |-> Den]

\* a new storage holding vals is allocated at the end of memory
Alloc(h, vals) == Append(h, vals)
\* an add that also writes the sum into the operand's storage
AddHeapAliased(h, t, k) ==
    Alloc([h EXCEPT ![t.st] = [i \in DOMAIN h[t.st] |-> h[t.st][i] + k * Den]],
          [i \in DOMAIN h[t.st] |-> h[t.st][i] + k * Den])

\* z.add(k), x + y: "returns another tensor".  The result lives in a new storage.
AddHeap(h, t, k) == Alloc(h, [i \in DOMAIN h[t.st] |-> h[t.st][i] + k * Den])
AddResult(h, t, k) == [st |-> Len(h) + 1, shape |-> t.shape]
\* an add_ that puts the sum in a new storage and leaves the operand alone
AddInplaceHeapCopies(h, t, k) ==
    Alloc(h, [i \in DOMAIN h[t.st] |-> h[t.st][i] + k * Den])

\* z.add_(k): "performs the operation in place ... the values in memory for that
\* tensor are changed without creating a new tensor"; returns the tensor itself
AddInplaceHeap(h, t, k) ==
    [h EXCEPT ![t.st] = [i \in DOMAIN h[t.st] |-> h[t.st][i] + k * Den]]
AddInplaceResult(h, t, k) == t

\* b.mul_(k), in place
MulInplaceHeap(h, t, k) == [h EXCEPT ![t.st] = [i \in DOMAIN h[t.st] |-> h[t.st][i] * k]]

\* a resize_ that leaves the shape as it was
ResizeKeepsShape(t, shape) == t

\* z.resize_(r, c): "reshaping is an in-place operation"; same storage, new shape
ResizeInplace(t, shape) == [t EXCEPT !.shape = shape]

\* torch.from_numpy(a) and b.numpy(): "The memory is shared between the Numpy
\* array and Torch tensor"
FromNumpy(a) == [st |-> a.st, shape |-> a.shape]
\* a conversion that hands the dimensions over in reverse order
ToNumpyReversed(t) == [st |-> t.st, shape |-> <<t.shape[2], t.shape[1]>>]

ToNumpy(t) == [st |-> t.st, shape |-> t.shape]

\* element (r, c) of the two-dimensional tensor t: storage is row-major
At(h, t, r, c) == h[t.st][(r - 1) * t.shape[2] + c]

\* the elements and the shape of t, copied out of memory, and the number of
\* storages allocated
Snapshot(h, t) == [vals |-> h[t.st], shape |-> t.shape, nstor |-> Len(h)]

-----------------------------------------------------------------------------
\* The statement reads the names r, then binds the names w
Exec(r, w) ==
    /\ names' = names \cup w
    /\ undefined' = undefined \cup (r \ names)

\* names bound by the import cell of Part 1
ImportsPart1 == {"np", "torch", "helper"}
\* names bound by the import cell of Part 3
ImportsPart3 == {"OrderedDict", "np", "time", "torch", "nn", "optim", "F", "helper"}
\* names bound when cell 9 of Part 3 starts: the imports and x, y, z of cells 2..7
NamesAfterCell7 == ImportsPart3 \cup {"x", "y", "z"}

TrainInit ==
    /\ weights = None /\ grad = None /\ batchGrad = None /\ wPrev = None
    /\ lr = 0 /\ e = -1 /\ steps = 0 /\ running_loss = {} /\ left = {} /\ cur = 0
    /\ flat = FALSE /\ calls = <<>> /\ nsteps = 0 /\ seen = [b \in Batches |-> 0]
    /\ printed = 0 /\ raisedAt = "" /\ grad_enabled = TRUE /\ prev_mode = TRUE
    /\ logits_rg = TRUE

AutoInit == x = None /\ y = None /\ z = None /\ xgrad = None /\ shown = None

Unbound == [st |-> 0, shape |-> <<>>]

TensInit ==
    /\ heap = <<>> /\ tx = Unbound /\ ty = Unbound /\ tz = Unbound
    /\ na = Unbound /\ tb = Unbound /\ out = Unbound
    /\ snap = [vals |-> <<>>, shape |-> <<>>, nstor |-> 0]
    /\ slice = <<>>

\* The kernel after the imports of the first code cell
Init ==
    /\ sec \in {"tensors", "autograd", "training"}
    /\ pc = "start"
    /\ TrainInit /\ AutoInit /\ TensInit
    /\ names = CASE sec = "tensors" -> ImportsPart1
                 [] sec = "autograd" -> ImportsPart3
                 [] sec = "training" -> NamesAfterCell7
    /\ undefined = {}

\* ---- Part 3, cells 9..11: data, network, loss and optimizer ----

\* Cell 9 with its last statement left out: the data set is built, no loader is bound
Cell9_LoadDataNoLoader ==
    /\ sec = "training" /\ pc = "start"
    /\ Exec({"torch"}, {"datasets", "transforms", "transform", "trainset"})
    /\ pc' = "cell10"
    /\ UNCHANGED <<sec, trainVars, autoVars, tensVars>>

\* trainloader = torch.utils.data.DataLoader(trainset, batch_size=64, shuffle=True)
Cell9_LoadData ==
    /\ sec = "training" /\ pc = "start"
    /\ Exec({"torch"}, {"datasets", "transforms", "transform", "trainset", "trainloader"})
    /\ pc' = "cell10"
    /\ UNCHANGED <<sec, trainVars, autoVars, tensVars>>

\* model = nn.Sequential(...): freshly initialised parameters, no gradients yet
Cell10_BuildModel ==
    /\ sec = "training" /\ pc = "cell10"
    /\ Exec({"nn", "OrderedDict"}, {"input_size", "hidden_sizes", "output_size", "model"})
    /\ \E w \in [Params -> {0, MaxW0}] : weights' = w
    /\ grad' = None
    /\ pc' = "cell11"
    /\ UNCHANGED <<sec, batchGrad, wPrev, lr, e, steps, running_loss, left, cur, flat,
                   calls, nsteps, seen, printed, raisedAt, grad_enabled, prev_mode,
                   logits_rg, autoVars, tensVars>>

\* criterion = nn.CrossEntropyLoss(); optimizer = optim.SGD(model.parameters(), lr=0.01)
Cell11_Optimizer ==
    /\ sec = "training" /\ pc = "cell11"
    /\ Exec({"nn", "optim", "model"}, {"criterion", "optimizer"})
    /\ lr' = LrSingle
    /\ pc' = "s_fetch"
    /\ UNCHANGED <<sec, weights, grad, batchGrad, wPrev, e, steps, running_loss, left,
                   cur, flat, calls, nsteps, seen, printed, raisedAt, grad_enabled,
                   prev_mode, logits_rg, autoVars, tensVars>>

\* ---- Part 3, cell 12: one training step ----

\* print initial weights; images, labels = next(iter(trainloader)); images.resize_(64, 784)
SingleFetch ==
    /\ sec = "training" /\ pc = "s_fetch"
    /\ Exec({"model", "trainloader"}, {"images", "labels"})
    /\ \E b \in IterBatches : cur' = b
    /\ flat' = TRUE
    /\ calls' = <<>>
    /\ pc' = "s_zero_grad"
    /\ UNCHANGED <<sec, weights, grad, batchGrad, wPrev, lr, e, steps, running_loss, left,
                   nsteps, seen, printed, raisedAt, grad_enabled, prev_mode, logits_rg,
                   autoVars, tensVars>>

\* optimizer.zero_grad()
SingleZeroGrad ==
    /\ sec = "training" /\ pc = "s_zero_grad"
    /\ Exec({"optimizer"}, {})
    /\ grad' = ZeroGrad(grad)
    /\ calls' = Append(calls, "zero_grad")
    /\ pc' = "s_forward"
    /\ UNCHANGED <<sec, weights, batchGrad, wPrev, lr, e, steps, running_loss, left, cur,
                   flat, nsteps, seen, printed, raisedAt, grad_enabled, prev_mode,
                   logits_rg, autoVars, tensVars>>

\* output = model.forward(images)
SingleForward ==
    /\ sec = "training" /\ pc = "s_forward"
    /\ Exec({"model", "images"}, {"output"})
    /\ calls' = Append(calls, "forward")
    /\ pc' = "s_loss"
    /\ UNCHANGED <<sec, weights, grad, batchGrad, wPrev, lr, e, steps, running_loss, left,
                   cur, flat, nsteps, seen, printed, raisedAt, grad_enabled, prev_mode,
                   logits_rg, autoVars, tensVars>>

\* loss = criterion(output, labels)
SingleLoss ==
    /\ sec = "training" /\ pc = "s_loss"
    /\ Exec({"criterion", "output", "labels"}, {"loss"})
    /\ calls' = Append(calls, "loss")
    /\ pc' = "s_backward"
    /\ UNCHANGED <<sec, weights, grad, batchGrad, wPrev, lr, e, steps, running_loss, left,
                   cur, flat, nsteps, seen, printed, raisedAt, grad_enabled, prev_mode,
                   logits_rg, autoVars, tensVars>>

\* loss.backward(); print('Gradient -', model.fc1.weight.grad)
SingleBackward ==
    /\ sec = "training" /\ pc = "s_backward"
    /\ Exec({"loss", "model"}, {})
    /\ \E bg \in [Params -> Grads] :
         /\ batchGrad' = bg
         /\ grad' = Accumulate(grad, bg)
    /\ calls' = Append(calls, "backward")
    /\ pc' = "s_step"
    /\ UNCHANGED <<sec, weights, wPrev, lr, e, steps, running_loss, left, cur, flat,
                   nsteps, seen, printed, raisedAt, grad_enabled, prev_mode, logits_rg,
                   autoVars, tensVars>>

\* optimizer.step()
SingleStep ==
    /\ sec = "training" /\ pc = "s_step"
    /\ Exec({"optimizer"}, {})
    /\ wPrev' = weights
    /\ weights' = SGDStep(weights, grad, lr)
    /\ calls' = Append(calls, "step")
    /\ pc' = "cell13"
    /\ UNCHANGED <<sec, grad, batchGrad, lr, e, steps, running_loss, left, cur, flat,
                   nsteps, seen, printed, raisedAt, grad_enabled, prev_mode, logits_rg,
                   autoVars, tensVars>>

\* ---- Part 3, cells 13, 14 ----

\* print('Updated weights - ', model.fc1.weight)
Cell13_Print ==
    /\ sec = "training" /\ pc = "cell13"
    /\ Exec({"model"}, {})
    /\ pc' = "cell14"
    /\ UNCHANGED <<sec, trainVars, autoVars, tensVars>>

\* optimizer = optim.SGD(model.parameters(), lr=0.003)
Cell14_Optimizer ==
    /\ sec = "training" /\ pc = "cell14"
    /\ Exec({"optim", "model"}, {"optimizer"})
    /\ lr' = LrLoop
    /\ pc' = "cell15"
    /\ UNCHANGED <<sec, weights, grad, batchGrad, wPrev, e, steps, running_loss, left,
                   cur, flat, calls, nsteps, seen, printed, raisedAt, grad_enabled,
                   prev_mode, logits_rg, autoVars, tensVars>>

\* ---- Part 3, cell 15: the training loop ----

\* epochs = 3; print_every = 40; steps = 0
LoopInit ==
    /\ sec = "training" /\ pc = "cell15"
    /\ Exec({}, {"epochs", "print_every", "steps"})
    /\ steps' = 0
    /\ pc' = "for_e"
    /\ UNCHANGED <<sec, weights, grad, batchGrad, wPrev, lr, e, running_loss, left, cur,
                   flat, calls, nsteps, seen, printed, raisedAt, grad_enabled, prev_mode,
                   logits_rg, autoVars, tensVars>>

\* a loop whose range runs one epoch too far
ForEpochOneMore ==
    /\ sec = "training" /\ pc = "for_e"
    /\ IF e + 1 <= epochs
         THEN /\ e' = e + 1
              /\ running_loss' = {}
              /\ left' = IterBatches
              /\ pc' = "for_batch"
              /\ Exec({"epochs", "trainloader"}, {"e", "running_loss"})
         ELSE /\ pc' = "cell16"
              /\ Exec({"epochs"}, {})
              /\ UNCHANGED <<e, running_loss, left>>
    /\ UNCHANGED <<sec, weights, grad, batchGrad, wPrev, lr, steps, cur, flat, calls,
                   nsteps, seen, printed, raisedAt, grad_enabled, prev_mode, logits_rg,
                   autoVars, tensVars>>

\* a loop that starts counting again in every epoch
ForEpochResetsSteps ==
    /\ sec = "training" /\ pc = "for_e"
    /\ IF e + 1 < epochs
         THEN /\ e' = e + 1
              /\ running_loss' = {}
              /\ left' = IterBatches
              /\ steps' = 0
              /\ pc' = "for_batch"
              /\ Exec({"epochs", "trainloader"}, {"e", "running_loss"})
         ELSE /\ pc' = "cell16"
              /\ Exec({"epochs"}, {})
              /\ UNCHANGED <<e, running_loss, left, steps>>
    /\ UNCHANGED <<sec, weights, grad, batchGrad, wPrev, lr, cur, flat, calls,
                   nsteps, seen, printed, raisedAt, grad_enabled, prev_mode, logits_rg,
                   autoVars, tensVars>>

\* for e in range(epochs): running_loss = 0, and iter(trainloader) of the inner for;
\* when range(epochs) is exhausted the cell ends and e keeps its last value
ForEpoch ==
    /\ sec = "training" /\ pc = "for_e"
    /\ IF e + 1 < epochs
         THEN /\ e' = e + 1
              /\ running_loss' = {}
              /\ left' = IterBatches
              /\ pc' = "for_batch"
              /\ Exec({"epochs", "trainloader"}, {"e", "running_loss"})
         ELSE /\ pc' = "cell16"
              /\ Exec({"epochs"}, {})
              /\ UNCHANGED <<e, running_loss, left>>
    /\ UNCHANGED <<sec, weights, grad, batchGrad, wPrev, lr, steps, cur, flat, calls,
                   nsteps, seen, printed, raisedAt, grad_enabled, prev_mode, logits_rg,
                   autoVars, tensVars>>

\* for images, labels in iter(trainloader): the iterator yields a minibatch it has
\* not yielded yet, or is exhausted and the epoch ends
ForBatch ==
    /\ sec = "training" /\ pc = "for_batch"
    /\ IF left # {}
         THEN /\ \E b \in left : cur' = b /\ left' = left \ {b}
              /\ flat' = FALSE
              /\ calls' = <<>>
              /\ pc' = "inc_steps"
              /\ Exec({}, {"images", "labels"})
         ELSE /\ pc' = "for_e"
              /\ Exec({}, {})
              /\ UNCHANGED <<cur, left, flat, calls>>
    /\ UNCHANGED <<sec, weights, grad, batchGrad, wPrev, lr, e, steps, running_loss,
                   nsteps, seen, printed, raisedAt, grad_enabled, prev_mode, logits_rg,
                   autoVars, tensVars>>

\* an iteration that leaves the counter as it is
IncStepsSkipped ==
    /\ sec = "training" /\ pc = "inc_steps"
    /\ Exec({"steps"}, {"steps"})
    /\ steps' = steps
    /\ pc' = "resize"
    /\ UNCHANGED <<sec, weights, grad, batchGrad, wPrev, lr, e, running_loss, left, cur,
                   flat, calls, nsteps, seen, printed, raisedAt, grad_enabled, prev_mode,
                   logits_rg, autoVars, tensVars>>

\* steps += 1
IncSteps ==
    /\ sec = "training" /\ pc = "inc_steps"
    /\ Exec({"steps"}, {"steps"})
    /\ steps' = steps + 1
    /\ pc' = "resize"
    /\ UNCHANGED <<sec, weights, grad, batchGrad, wPrev, lr, e, running_loss, left, cur,
                   flat, calls, nsteps, seen, printed, raisedAt, grad_enabled, prev_mode,
                   logits_rg, autoVars, tensVars>>

\* images.resize_(images.size()[0], 784)
Resize ==
    /\ sec = "training" /\ pc = "resize"
    /\ Exec({"images"}, {})
    /\ flat' = TRUE
    /\ pc' = "zero_grad"
    /\ UNCHANGED <<sec, weights, grad, batchGrad, wPrev, lr, e, steps, running_loss, left,
                   cur, calls, nsteps, seen, printed, raisedAt, grad_enabled, prev_mode,
                   logits_rg, autoVars, tensVars>>

\* optimizer.zero_grad()
LoopZeroGrad ==
    /\ sec = "training" /\ pc = "zero_grad"
    /\ Exec({"optimizer"}, {})
    /\ grad' = ZeroGrad(grad)
    /\ calls' = Append(calls, "zero_grad")
    /\ pc' = "forward"
    /\ UNCHANGED <<sec, weights, batchGrad, wPrev, lr, e, steps, running_loss, left, cur,
                   flat, nsteps, seen, printed, raisedAt, grad_enabled, prev_mode,
                   logits_rg, autoVars, tensVars>>

\* output = model.forward(images)
LoopForward ==
    /\ sec = "training" /\ pc = "forward"
    /\ Exec({"model", "images"}, {"output"})
    /\ calls' = Append(calls, "forward")
    /\ pc' = "loss"
    /\ UNCHANGED <<sec, weights, grad, batchGrad, wPrev, lr, e, steps, running_loss, left,
                   cur, flat, nsteps, seen, printed, raisedAt, grad_enabled, prev_mode,
                   logits_rg, autoVars, tensVars>>

\* a loop body without loss.backward(): the loss is followed by the step
LoopLossNoBackward ==
    /\ sec = "training" /\ pc = "loss"
    /\ Exec({"criterion", "output", "labels"}, {"loss"})
    /\ calls' = Append(calls, "loss")
    /\ pc' = "step"
    /\ UNCHANGED <<sec, weights, grad, batchGrad, wPrev, lr, e, steps, running_loss, left,
                   cur, flat, nsteps, seen, printed, raisedAt, grad_enabled, prev_mode,
                   logits_rg, autoVars, tensVars>>

\* loss = criterion(output, labels)
LoopLoss ==
    /\ sec = "training" /\ pc = "loss"
    /\ Exec({"criterion", "output", "labels"}, {"loss"})
    /\ calls' = Append(calls, "loss")
    /\ pc' = "backward"
    /\ UNCHANGED <<sec, weights, grad, batchGrad, wPrev, lr, e, steps, running_loss, left,
                   cur, flat, nsteps, seen, printed, raisedAt, grad_enabled, prev_mode,
                   logits_rg, autoVars, tensVars>>

\* loss.backward()
LoopBackward ==
    /\ sec = "training" /\ pc = "backward"
    /\ Exec({"loss"}, {})
    /\ \E bg \in [Params -> Grads] :
         /\ batchGrad' = bg
         /\ grad' = Accumulate(grad, bg)
    /\ calls' = Append(calls, "backward")
    /\ pc' = "step"
    /\ UNCHANGED <<sec, weights, wPrev, lr, e, steps, running_loss, left, cur, flat,
                   nsteps, seen, printed, raisedAt, grad_enabled, prev_mode, logits_rg,
                   autoVars, tensVars>>

\* optimizer.step()
LoopStep ==
    /\ sec = "training" /\ pc = "step"
    /\ Exec({"optimizer"}, {})
    /\ wPrev' = weights
    /\ weights' = SGDStep(weights, grad, lr)
    /\ calls' = Append(calls, "step")
    /\ nsteps' = nsteps + 1
    /\ seen' = [seen EXCEPT ![cur] = @ + 1]
    /\ pc' = "add_loss"
    /\ UNCHANGED <<sec, grad, batchGrad, lr, e, steps, running_loss, left, cur, flat,
                   printed, raisedAt, grad_enabled, prev_mode, logits_rg, autoVars, tensVars>>

\* running_loss += loss.item()
AddLoss ==
    /\ sec = "training" /\ pc = "add_loss"
    /\ Exec({"running_loss", "loss"}, {"running_loss"})
    /\ running_loss' = running_loss \cup {steps}
    /\ pc' = "if_print"
    /\ UNCHANGED <<sec, weights, grad, batchGrad, wPrev, lr, e, steps, left, cur, flat,
                   calls, nsteps, seen, printed, raisedAt, grad_enabled, prev_mode,
                   logits_rg, autoVars, tensVars>>

\* if steps % print_every == 0: print(...); running_loss = 0
IfPrint ==
    /\ sec = "training" /\ pc = "if_print"
    /\ Exec({"steps", "print_every", "e", "epochs", "running_loss"}, {"running_loss"})
    /\ IF steps % print_every = 0
         THEN printed' = printed + 1 /\ running_loss' = {}
         ELSE UNCHANGED <<printed, running_loss>>
    /\ pc' = "for_batch"
    /\ UNCHANGED <<sec, weights, grad, batchGrad, wPrev, lr, e, steps, left, cur, flat,
                   calls, nsteps, seen, raisedAt, grad_enabled, prev_mode, logits_rg,
                   autoVars, tensVars>>

\* The statements of the loop that call into the library.  The cell has no
\* try/except: an exception raised by any of them ends the cell, and with it the run.
Fallible == {"for_batch", "resize", "zero_grad", "forward", "loss", "backward", "step",
             "add_loss"}

\* a loop that swallows the exception and goes on with the next minibatch
RaiseCaught ==
    /\ sec = "training" /\ pc \in {"resize", "zero_grad", "forward", "loss", "backward", "step"}
    /\ Exec({}, {})
    /\ raisedAt' = pc
    /\ pc' = "for_batch"
    /\ UNCHANGED <<sec, weights, grad, batchGrad, wPrev, lr, e, steps, running_loss, left,
                   cur, flat, calls, nsteps, seen, printed, grad_enabled, prev_mode,
                   logits_rg, autoVars, tensVars>>


Raise ==
    /\ sec = "training" /\ pc \in Fallible
    /\ Exec({}, {})
    /\ raisedAt' = pc
    /\ pc' = "raised"
    /\ UNCHANGED <<sec, weights, grad, batchGrad, wPrev, lr, e, steps, running_loss, left,
                   cur, flat, calls, nsteps, seen, printed, grad_enabled, prev_mode,
                   logits_rg, autoVars, tensVars>>

\* ---- Part 3, cell 16: inference ----

\* images, labels = next(iter(trainloader)); img = images[0].view(1, 784)
Cell16_Fetch ==
    /\ sec = "training" /\ pc = "cell16"
    /\ Exec({"trainloader"}, {"images", "labels", "img"})
    /\ \E b \in IterBatches : cur' = b
    /\ flat' = TRUE
    /\ pc' = "no_grad_enter"
    /\ UNCHANGED <<sec, weights, grad, batchGrad, wPrev, lr, e, steps, running_loss, left,
                   calls, nsteps, seen, printed, raisedAt, grad_enabled, prev_mode,
                   logits_rg, autoVars, tensVars>>

\* with torch.no_grad(): the grad mode is saved and switched off
NoGradEnter ==
    /\ sec = "training" /\ pc = "no_grad_enter"
    /\ Exec({"torch"}, {})
    /\ prev_mode' = grad_enabled
    /\ grad_enabled' = FALSE
    /\ pc' = "logits"
    /\ UNCHANGED <<sec, weights, grad, batchGrad, wPrev, lr, e, steps, running_loss, left,
                   cur, flat, calls, nsteps, seen, printed, raisedAt, logits_rg, autoVars, tensVars>>

\* logits = model.forward(img): img does not require gradients, the parameters do
Cell16_Forward ==
    /\ sec = "training" /\ pc = "logits"
    /\ Exec({"model", "img"}, {"logits"})
    /\ logits_rg' = ResultRequiresGrad(grad_enabled, {FALSE, TRUE})
    /\ pc' = "no_grad_exit"
    /\ UNCHANGED <<sec, weights, grad, batchGrad, wPrev, lr, e, steps, running_loss, left,
                   cur, flat, calls, nsteps, seen, printed, raisedAt, grad_enabled,
                   prev_mode, autoVars, tensVars>>

\* the with block ends: the saved grad mode is restored
NoGradExit ==
    /\ sec = "training" /\ pc = "no_grad_exit"
    /\ Exec({}, {})
    /\ grad_enabled' = prev_mode
    /\ pc' = "softmax"
    /\ UNCHANGED <<sec, weights, grad, batchGrad, wPrev, lr, e, steps, running_loss, left,
                   cur, flat, calls, nsteps, seen, printed, raisedAt, prev_mode,
                   logits_rg, autoVars, tensVars>>

\* ps = F.softmax(logits, dim=1); helper.view_classify(img.view(1, 28, 28), ps)
Cell16_Softmax ==
    /\ sec = "training" /\ pc = "softmax"
    /\ Exec({"F", "logits", "helper", "img"}, {"ps"})
    /\ pc' = "done"
    /\ UNCHANGED <<sec, trainVars, autoVars, tensVars>>

\* ---- Part 3, cells 2..7: autograd ----

\* x = torch.randn(2,2, requires_grad=True); print(x)
Cell2_X ==
    /\ sec = "autograd" /\ pc = "start"
    /\ Exec({"torch"}, {"x"})
    /\ \E v \in [1..(XRows * XCols) -> (-MaxX)..MaxX] : x' = v
    /\ xgrad' = None
    /\ pc' = "cell3"
    /\ UNCHANGED <<sec, y, z, shown, trainVars, tensVars>>

\* y = x**2; print(y); print(y.grad_fn)
Cell3_Y ==
    /\ sec = "autograd" /\ pc = "cell3"
    /\ Exec({"x"}, {"y"})
    /\ y' = Square(x)
    /\ pc' = "cell5"
    /\ UNCHANGED <<sec, x, z, xgrad, shown, trainVars, tensVars>>

\* a mean that fills in x.grad as soon as it is computed
Cell5_ZEager ==
    /\ sec = "autograd" /\ pc = "cell5"
    /\ Exec({"y"}, {"z"})
    /\ z' = Mean(y)
    /\ xgrad' = BackwardZ(x)
    /\ pc' = "cell6"
    /\ UNCHANGED <<sec, x, y, shown, trainVars, tensVars>>

\* z = y.mean(); print(z)
Cell5_Z ==
    /\ sec = "autograd" /\ pc = "cell5"
    /\ Exec({"y"}, {"z"})
    /\ z' = Mean(y)
    /\ pc' = "cell6"
    /\ UNCHANGED <<sec, x, y, xgrad, shown, trainVars, tensVars>>

\* print(x.grad)
Cell6_PrintGrad ==
    /\ sec = "autograd" /\ pc = "cell6"
    /\ Exec({"x"}, {})
    /\ shown' = <<xgrad>>
    /\ pc' = "cell7"
    /\ UNCHANGED <<sec, x, y, z, xgrad, trainVars, tensVars>>

\* z.backward(); print(x.grad); print(x/2)
Cell7_Backward ==
    /\ sec = "autograd" /\ pc = "cell7"
    /\ Exec({"z", "x"}, {})
    /\ xgrad' = BackwardZ(x)
    /\ shown' = <<xgrad', Half(x)>>
    /\ pc' = "done"
    /\ UNCHANGED <<sec, x, y, z, trainVars, tensVars>>

\* ---- Part 1: tensors ----

\* x = torch.rand(3, 2)
P1_X ==
    /\ sec = "tensors" /\ pc = "start"
    /\ Exec({"torch"}, {"x"})
    /\ \E seed \in 1..NSeeds :
         /\ heap' = Alloc(heap, RandElems(seed, Numel(<<3, 2>>)))
         /\ tx' = [st |-> Len(heap) + 1, shape |-> <<3, 2>>]
    /\ out' = tx'
    /\ pc' = "p1_y"
    /\ UNCHANGED <<sec, slice, ty, tz, na, tb, snap, trainVars, autoVars>>

\* y = torch.ones(x.size())
P1_Y ==
    /\ sec = "tensors" /\ pc = "p1_y"
    /\ Exec({"torch", "x"}, {"y"})
    /\ heap' = Alloc(heap, OnesElems(Numel(tx.shape)))
    /\ ty' = [st |-> Len(heap) + 1, shape |-> tx.shape]
    /\ out' = ty'
    /\ pc' = "p1_z"
    /\ UNCHANGED <<sec, slice, tx, tz, na, tb, snap, trainVars, autoVars>>

\* z = x + y
P1_Z ==
    /\ sec = "tensors" /\ pc = "p1_z"
    /\ Exec({"x", "y"}, {"z"})
    /\ heap' = Alloc(heap, [i \in DOMAIN Elems(heap, tx) |->
                               Elems(heap, tx)[i] + Elems(heap, ty)[i]])
    /\ tz' = [st |-> Len(heap) + 1, shape |-> tx.shape]
    /\ out' = tz'
    /\ pc' = "p1_row"
    /\ UNCHANGED <<sec, slice, tx, ty, na, tb, snap, trainVars, autoVars>>

\* z[0]   the first row of z
P1_Row ==
    /\ sec = "tensors" /\ pc = "p1_row"
    /\ Exec({"z"}, {})
    /\ slice' = [c \in 1..tz.shape[2] |-> At(heap, tz, 1, c)]
    /\ pc' = "p1_col"
    /\ UNCHANGED <<sec, heap, tx, ty, tz, na, tb, out, snap, trainVars, autoVars>>

\* z[:, 1:]   every row of z, from the second column on
P1_Col ==
    /\ sec = "tensors" /\ pc = "p1_col"
    /\ Exec({"z"}, {})
    /\ slice' = [r \in 1..tz.shape[1] |-> At(heap, tz, r, 2)]
    /\ pc' = "p1_add"
    /\ UNCHANGED <<sec, heap, tx, ty, tz, na, tb, out, snap, trainVars, autoVars>>

\* z.add(1)   "Return a new tensor z + 1"
P1_Add ==
    /\ sec = "tensors" /\ pc = "p1_add"
    /\ Exec({"z"}, {})
    /\ snap' = Snapshot(heap, tz)
    /\ heap' = AddHeap(heap, tz, 1)
    /\ out' = AddResult(heap, tz, 1)
    /\ pc' = "p1_show1"
    /\ UNCHANGED <<sec, slice, tx, ty, tz, na, tb, trainVars, autoVars>>

\* z   "z tensor is unchanged"
P1_ShowZ1 ==
    /\ sec = "tensors" /\ pc = "p1_show1"
    /\ Exec({"z"}, {})
    /\ out' = tz
    /\ pc' = "p1_add_"
    /\ UNCHANGED <<sec, slice, heap, tx, ty, tz, na, tb, snap, trainVars, autoVars>>

\* z.add_(1)   "Add 1 and update z tensor in-place"
P1_AddInplace ==
    /\ sec = "tensors" /\ pc = "p1_add_"
    /\ Exec({"z"}, {})
    /\ snap' = Snapshot(heap, tz)
    /\ heap' = AddInplaceHeap(heap, tz, 1)
    /\ out' = AddInplaceResult(heap, tz, 1)
    /\ pc' = "p1_show2"
    /\ UNCHANGED <<sec, slice, tx, ty, tz, na, tb, trainVars, autoVars>>

\* z   "z has been updated"
P1_ShowZ2 ==
    /\ sec = "tensors" /\ pc = "p1_show2"
    /\ Exec({"z"}, {})
    /\ out' = tz
    /\ pc' = "p1_size"
    /\ UNCHANGED <<sec, slice, heap, tx, ty, tz, na, tb, snap, trainVars, autoVars>>

\* z.size()
P1_Size ==
    /\ sec = "tensors" /\ pc = "p1_size"
    /\ Exec({"z"}, {})
    /\ out' = [st |-> 0, shape |-> tz.shape]
    /\ pc' = "p1_resize"
    /\ UNCHANGED <<sec, slice, heap, tx, ty, tz, na, tb, snap, trainVars, autoVars>>

\* z.resize_(2, 3)
P1_Resize ==
    /\ sec = "tensors" /\ pc = "p1_resize"
    /\ Exec({"z"}, {})
    /\ snap' = Snapshot(heap, tz)
    /\ tz' = ResizeInplace(tz, <<2, 3>>)
    /\ out' = tz'
    /\ pc' = "p1_show3"
    /\ UNCHANGED <<sec, slice, heap, tx, ty, na, tb, trainVars, autoVars>>

\* z
P1_ShowZ3 ==
    /\ sec = "tensors" /\ pc = "p1_show3"
    /\ Exec({"z"}, {})
    /\ out' = tz
    /\ pc' = "p1_a"
    /\ UNCHANGED <<sec, slice, heap, tx, ty, tz, na, tb, snap, trainVars, autoVars>>

\* a = np.random.rand(4,3)
P1_A ==
    /\ sec = "tensors" /\ pc = "p1_a"
    /\ Exec({"np"}, {"a"})
    /\ \E seed \in 1..NSeeds :
         /\ heap' = Alloc(heap, RandElems(seed, Numel(<<4, 3>>)))
         /\ na' = [st |-> Len(heap) + 1, shape |-> <<4, 3>>]
    /\ out' = na'
    /\ pc' = "p1_b"
    /\ UNCHANGED <<sec, slice, tx, ty, tz, tb, snap, trainVars, autoVars>>

\* a from_numpy that copies the array into a storage of its own
P1_FromNumpyCopies ==
    /\ sec = "tensors" /\ pc = "p1_b"
    /\ Exec({"torch", "a"}, {"b"})
    /\ heap' = Alloc(heap, Elems(heap, na))
    /\ tb' = [st |-> Len(heap) + 1, shape |-> na.shape]
    /\ out' = tb'
    /\ pc' = "p1_numpy"
    /\ UNCHANGED <<sec, slice, tx, ty, tz, na, snap, trainVars, autoVars>>

\* b = torch.from_numpy(a)
P1_FromNumpy ==
    /\ sec = "tensors" /\ pc = "p1_b"
    /\ Exec({"torch", "a"}, {"b"})
    /\ tb' = FromNumpy(na)
    /\ out' = tb'
    /\ pc' = "p1_numpy"
    /\ UNCHANGED <<sec, slice, heap, tx, ty, tz, na, snap, trainVars, autoVars>>

\* b.numpy()
P1_Numpy ==
    /\ sec = "tensors" /\ pc = "p1_numpy"
    /\ Exec({"b"}, {})
    /\ out' = ToNumpy(tb)
    /\ pc' = "p1_mul_"
    /\ UNCHANGED <<sec, slice, heap, tx, ty, tz, na, tb, snap, trainVars, autoVars>>

\* b.mul_(2)   "Multiply PyTorch Tensor by 2, in place"
P1_MulInplace ==
    /\ sec = "tensors" /\ pc = "p1_mul_"
    /\ Exec({"b"}, {})
    /\ snap' = Snapshot(heap, tb)
    /\ heap' = MulInplaceHeap(heap, tb, 2)
    /\ out' = tb
    /\ pc' = "p1_show_a"
    /\ UNCHANGED <<sec, slice, tx, ty, tz, na, tb, trainVars, autoVars>>

\* a   "Numpy array matches new values from Tensor"
P1_ShowA ==
    /\ sec = "tensors" /\ pc = "p1_show_a"
    /\ Exec({"a"}, {})
    /\ out' = na
    /\ pc' = "done"
    /\ UNCHANGED <<sec, slice, heap, tx, ty, tz, na, tb, snap, trainVars, autoVars>>

Next ==
    \/ Cell9_LoadData \/ Cell10_BuildModel \/ Cell11_Optimizer
    \/ SingleFetch \/ SingleZeroGrad \/ SingleForward \/ SingleLoss
    \/ SingleBackward \/ SingleStep
    \/ Cell13_Print \/ Cell14_Optimizer
    \/ LoopInit \/ ForEpoch \/ ForBatch \/ IncSteps \/ Resize \/ LoopZeroGrad
    \/ LoopForward \/ LoopLoss \/ LoopBackward \/ LoopStep \/ AddLoss \/ IfPrint
    \/ Raise
    \/ Cell16_Fetch \/ NoGradEnter \/ Cell16_Forward \/ NoGradExit \/ Cell16_Softmax
    \/ Cell2_X \/ Cell3_Y \/ Cell5_Z \/ Cell6_PrintGrad \/ Cell7_Backward
    \/ P1_X \/ P1_Y \/ P1_Z \/ P1_Row \/ P1_Col \/ P1_Add \/ P1_ShowZ1 \/ P1_AddInplace \/ P1_ShowZ2
    \/ P1_Size \/ P1_Resize \/ P1_ShowZ3 \/ P1_A \/ P1_FromNumpy \/ P1_Numpy
    \/ P1_MulInplace \/ P1_ShowA

Spec == Init /\ [][Next]_vars

\* The kernel runs a cell to its end: while a statement is left to execute, one is
\* executed. Nothing else is scheduled; an exception is one of the possible steps.
FairSpec == Init /\ [][Next]_vars /\ WF_vars(Next)

-----------------------------------------------------------------------------
\* Properties

\* the library calls of one training step, in the order of the notebook
StepOrder == <<"zero_grad", "forward", "loss", "backward", "step">>

IsPrefix(a, b) == Len(a) <= Len(b) /\ a = SubSeq(b, 1, Len(a))

\* C1: in the training loop, an iteration that runs to its end has called
\* optimizer.zero_grad, forward, the loss, loss.backward and optimizer.step
\* exactly once each and in that order; at no point has an iteration made the
\* calls in another order or twice, and optimizer.step is entered only after
\* the forward and the backward pass of that same iteration.
C1_StepOrder ==
    sec = "training" =>
        /\ IsPrefix(calls, StepOrder)
        /\ pc \in {"add_loss", "if_print"} => calls = StepOrder
        /\ pc = "step" => calls = SubSeq(StepOrder, 1, 4)
        /\ pc = "backward" => calls = SubSeq(StepOrder, 1, 3)

\* C1 witness: the last iteration of the loop has run all five calls
C1_Witness ==
    /\ sec = "training" /\ pc = "if_print"
    /\ steps = epochs * NBatches
    /\ calls = StepOrder

\* C2: whenever optimizer.step is about to be called, in cell 12 and in every
\* iteration of the loop, the stored gradient of each parameter is the
\* gradient of the current minibatch's loss alone.
C2_GradIsCurrentBatch ==
    (sec = "training" /\ pc \in {"s_step", "step"}) =>
        /\ grad # None
        /\ \A p \in Params : grad[p] = batchGrad[p]

\* C2 witness: a step of the loop is about to be taken with a non-zero
\* gradient, after an earlier step that had a non-zero gradient too
C2_Witness ==
    /\ sec = "training" /\ pc = "step" /\ nsteps >= 1
    /\ \E p \in Params : batchGrad[p] # 0 /\ wPrev[p] # weights[p]

\* C3: a completed optimizer.step has set every weight to w - alpha * dl/dw,
\* with alpha = 0.01 in cell 12 and alpha = 0.003 in the loop and dl/dw the
\* stored gradient; a weight whose gradient is zero is unchanged.
C3_UpdateRule ==
    sec = "training" =>
        /\ pc = "cell13" =>
             \A p \in Params : /\ weights[p] = wPrev[p] - LrSingle * grad[p]
                               /\ grad[p] = 0 => weights[p] = wPrev[p]
        /\ pc = "add_loss" =>
             \A p \in Params : /\ weights[p] = wPrev[p] - LrLoop * grad[p]
                               /\ grad[p] = 0 => weights[p] = wPrev[p]

\* C3 witness: a step of the loop has moved one weight and left another, whose
\* gradient is zero, where it was
C3_Witness ==
    /\ sec = "training" /\ pc = "add_loss"
    /\ \E p, q \in Params : grad[p] = 0 /\ grad[q] # 0 /\ weights[q] # wPrev[q]

\* C4: the loop goes through all the minibatches: when an epoch's iterator is
\* exhausted every minibatch has been stepped on once in each epoch so far; at
\* most one iteration is in progress, and the previous one has completed its
\* step when the next minibatch is fetched; a loop that has run to its end
\* has taken epochs * NBatches optimizer steps.
C4_AllBatchesOnce ==
    sec = "training" =>
        /\ (pc = "for_batch" /\ left = {}) => \A b \in Batches : seen[b] = e + 1
        /\ steps - nsteps \in {0, 1}
        /\ pc = "for_batch" => steps = nsteps
        /\ pc \in {"cell16", "no_grad_enter", "logits", "no_grad_exit", "softmax", "done"} =>
             /\ nsteps = epochs * NBatches
             /\ \A b \in Batches : seen[b] = epochs

\* C4 witness: the loop has ended after epochs * NBatches steps
C4_Witness ==
    /\ sec = "training" /\ pc = "cell16"
    /\ nsteps = epochs * NBatches /\ e = epochs - 1

\* C5: a failure raised inside an iteration is not caught: the step that
\* raises ends the run, and neither it nor any later step takes an optimizer
\* step, prints, retries or changes the parameters.
C5_FailureStops ==
    [][(raisedAt' # "" \/ raisedAt # "") =>
          /\ pc' = "raised"
          /\ weights' = weights /\ nsteps' = nsteps /\ printed' = printed
          /\ steps' = steps]_vars

\* C5 witness: loss.backward() raised in the second iteration or later, after
\* a line was printed
C5_Witness ==
    /\ sec = "training" /\ pc = "raised" /\ raisedAt = "backward"
    /\ nsteps >= 1 /\ printed >= 1

\* C6: x.grad is None in every state before z.backward(), also after y and z
\* have been computed, which is what print(x.grad) shows; after z.backward()
\* it is populated.
C6_GradEmptyBeforeBackward ==
    sec = "autograd" =>
        /\ pc \in {"start", "cell3", "cell5", "cell6", "cell7"} => xgrad = None
        /\ pc = "cell7" => shown = <<None>>
        /\ pc = "done" => xgrad # None

\* C6 witness: y and z are computed, x.grad has been printed, backward has not run
C6_Witness ==
    /\ sec = "autograd" /\ pc = "cell7"
    /\ y # None /\ z # None /\ \E i \in DOMAIN x : x[i] # 0

\* C7: after z.backward() the gradient in x.grad equals x/2 element by
\* element, and the two printed tensors are the same.
C7_GradIsHalfX ==
    (sec = "autograd" /\ pc = "done") =>
        /\ \A i \in DOMAIN x : xgrad[i] = Rat(x[i], 2)
        /\ shown[1] = shown[2]

\* C7 witness: backward has run on an x with an odd and a negative element
C7_Witness ==
    /\ sec = "autograd" /\ pc = "done"
    /\ \E i, j \in DOMAIN x : x[i] = 1 /\ xgrad[i] = <<1, 2>> /\ x[j] < 0

\* C8: logits, computed inside the torch.no_grad() block from parameters that
\* require gradients, does not require gradients; inside the block the grad
\* mode is off, and after the block it is on again.
C8_NoGradBlock ==
    sec = "training" =>
        /\ pc \in {"no_grad_exit", "softmax", "done"} => logits_rg = FALSE
        /\ pc \in {"logits", "no_grad_exit"} => grad_enabled = FALSE
        /\ pc \in {"softmax", "done"} => grad_enabled = TRUE

\* C8 witness: the block has ended
C8_Witness ==
    /\ sec = "training" /\ pc = "softmax"
    /\ logits_rg = FALSE /\ grad_enabled = TRUE

\* C9: z.add(1) returns a new tensor whose elements are those of z plus 1 and
\* leaves the elements and the shape of z unchanged.
C9_AddLeavesOperand ==
    (sec = "tensors" /\ pc = "p1_show1") =>
        /\ out.st # tz.st
        /\ Len(heap) = snap.nstor + 1
        /\ out.shape = snap.shape
        /\ \A i \in DOMAIN snap.vals : Elems(heap, out)[i] = snap.vals[i] + Den
        /\ Elems(heap, tz) = snap.vals
        /\ tz.shape = snap.shape

\* C9 witness: z.add(1) has returned, and z has elements that differ
C9_Witness ==
    /\ sec = "tensors" /\ pc = "p1_show1"
    /\ \E i, j \in DOMAIN snap.vals : snap.vals[i] # snap.vals[j]
    /\ Elems(heap, out) # Elems(heap, tz)

\* C10: z.add_(1) changes z itself and creates no tensor: every element of z
\* is its previous value plus 1, and the value returned is z.
C10_AddInplaceUpdates ==
    (sec = "tensors" /\ pc = "p1_show2") =>
        /\ Len(heap) = snap.nstor
        /\ tz.shape = snap.shape
        /\ \A i \in DOMAIN snap.vals : Elems(heap, tz)[i] = snap.vals[i] + Den
        /\ out = tz

\* C10 witness: z.add_(1) has returned and z is no longer what it was
C10_Witness ==
    /\ sec = "tensors" /\ pc = "p1_show2"
    /\ Elems(heap, tz) # snap.vals
    /\ \E i, j \in DOMAIN snap.vals : snap.vals[i] # snap.vals[j]

\* C11: the Numpy array a and the tensor b = torch.from_numpy(a) share their
\* memory: in every state after b is created a and b have the same shape and
\* the same elements, and after b.mul_(2) both hold twice the old values.
C11_SharedMemory ==
    (sec = "tensors" /\ tb # Unbound) =>
        /\ tb.shape = na.shape
        /\ Elems(heap, na) = Elems(heap, tb)
        /\ pc \in {"p1_show_a", "done"} =>
             \A i \in DOMAIN snap.vals : Elems(heap, na)[i] = 2 * snap.vals[i]

\* C11 witness: b.mul_(2) has changed the values a holds
C11_Witness ==
    /\ sec = "tensors" /\ pc = "p1_show_a"
    /\ Elems(heap, na) # snap.vals
    /\ Elems(heap, na) = Elems(heap, tb)

C13_ResizeKeepsOrder ==
    (sec = "tensors" /\ pc = "p1_show3") =>
        /\ snap.shape = <<3, 2>> /\ tz.shape = <<2, 3>>
        /\ Len(heap) = snap.nstor
        /\ Numel(tz.shape) = Numel(snap.shape)
        /\ Numel(tz.shape) = Len(Elems(heap, tz))
        /\ \A r \in 1..tz.shape[1], c \in 1..tz.shape[2] :
             At(heap, tz, r, c) = snap.vals[(r - 1) * tz.shape[2] + c]
        /\ out = tz

\* C13 witness: the resize has run on a z whose elements differ, and element
\* (2, 1) of the new shape is what element (2, 2) of the old shape was
C13_Witness ==
    /\ sec = "tensors" /\ pc = "p1_show3"
    /\ \E i, j \in DOMAIN snap.vals : snap.vals[i] # snap.vals[j]
    /\ At(heap, tz, 2, 1) = snap.vals[(2 - 1) * snap.shape[2] + 2]

\* ---- C14 ----
\* C14: each notebook is a linear script: with its cells run once each from top to
\* bottom no statement reads a name that no earlier cell has bound, and at the end
\* of a notebook the names its cells work on (torch, x, y, z, trainloader, model,
\* criterion, optimizer, a, b) are all bound. Cells 2..7 of Part 3 leave exactly
\* the names that cell 9 starts from.
C14_NamesDefinedBeforeUse ==
    /\ undefined = {}
    /\ (sec = "tensors" /\ pc = "done") =>
           {"torch", "x", "y", "z", "a", "b"} \subseteq names
    /\ (sec = "autograd" /\ pc = "done") => names = NamesAfterCell7
    /\ (sec = "training" /\ pc = "done") =>
           {"torch", "x", "y", "z", "trainloader", "model", "criterion", "optimizer"}
               \subseteq names

C14_Witness ==
    /\ sec = "training" /\ pc = "done"
    /\ {"trainloader", "model", "criterion", "optimizer", "logits", "ps"} \subseteq names
    /\ steps = epochs * NBatches

\* ---- C15 ----
\* the iterations of the inner loop started so far, over all epochs
Started == e * NBatches + (NBatches - Cardinality(left))

\* the statements of an iteration that follow steps += 1, up to the if
AfterInc == {"resize", "zero_grad", "forward", "loss", "backward", "step", "add_loss",
             "if_print"}

\* the statements of cell 16, which run once the loop has completed
AfterLoop == {"cell16", "no_grad_enter", "logits", "no_grad_exit", "softmax", "done"}

\* C15: steps starts at 0 and is incremented by 1 at the start of every iteration of
\* the inner loop; it is never reset between epochs, so it counts the iterations
\* started over all epochs. A line is printed exactly when steps % print_every = 0:
\* after the if of an iteration the number of printed lines is steps \div print_every,
\* and a completed run has printed (epochs * batches) \div print_every lines.
C15_StepsAndPrints ==
    (sec = "training" /\ pc \in {"for_e", "for_batch", "inc_steps"} \cup AfterInc \cup AfterLoop) =>
        /\ steps = IF pc = "inc_steps" THEN Started - 1 ELSE Started
        /\ printed = IF pc \in AfterInc THEN (steps - 1) \div print_every
                                        ELSE steps \div print_every
        /\ pc \in AfterLoop =>
              /\ steps = epochs * NBatches
              /\ printed = (epochs * NBatches) \div print_every

C15_Witness ==
    /\ sec = "training" /\ pc = "for_batch"
    /\ e > 0 /\ left # {}
    /\ steps > NBatches /\ steps % print_every = 0
    /\ printed = steps \div print_every /\ printed > 0

\* ---- C16 ----
\* the loop has ended normally: every minibatch went through one iteration per epoch
LoopCompleted ==
    /\ pc = "cell16"
    /\ steps = epochs * NBatches
    /\ nsteps = epochs * NBatches
    /\ \A b \in Batches : seen[b] = epochs
    /\ e = epochs - 1
    /\ left = {}

\* C16: with a finite trainloader and no failure the training loop terminates: once
\* the loop is entered the run reaches the end of the cell, unless a statement
\* raises. It ends after exactly epochs * batches iterations, steps being that
\* product and e being epochs - 1; at no point has it run more iterations than that.
C16_LoopTerminates ==
    /\ [](sec = "training" => steps <= epochs * NBatches /\ e <= epochs - 1)
    /\ (sec = "training" /\ pc = "for_e" /\ e = -1) ~> (pc = "raised" \/ LoopCompleted)

C16_Witness ==
    /\ sec = "training" /\ LoopCompleted
    /\ raisedAt = ""
    /\ \A b \in Batches : seen[b] > 1

\* ---- C17 ----
\* the statements of an iteration's body that call into the library: those of
\* Fallible but the fetch of the minibatch, which precedes the body
BodyFallible == Fallible \ {"for_batch"}

\* C17: when a statement of an iteration's body raises, steps += 1 has already run
\* for that iteration and running_loss += loss.item() has not completed for it:
\* after the failure steps counts the failed iteration (it is the number of
\* iterations started, one more than the losses and optimizer steps that precede
\* it allow for) and running_loss holds no loss of that iteration.
C17_FailureAfterCount ==
    (sec = "training" /\ pc = "raised" /\ raisedAt \in BodyFallible) =>
        /\ steps = Started
        /\ steps >= 1
        /\ steps \notin running_loss
        /\ running_loss \subseteq 1..(steps - 1)
        /\ nsteps = IF raisedAt = "add_loss" THEN steps ELSE steps - 1

C17_Witness ==
    /\ sec = "training" /\ pc = "raised" /\ raisedAt = "backward"
    /\ steps = 2 /\ running_loss = {1} /\ nsteps = 1

====
